---- MODULE Spec2Model ----
(***************************************************************************)
(* Tank level simulator: Simulator (orchestrator), Stepper (GSL RK4        *)
(* integrator), TankModel (process model) and PIDController.               *)
(*                                                                         *)
(* Real numbers (C++ double) are modelled in fixed point: the integer n    *)
(* stands for the real n / Q.  Products and quotients truncate toward 0.   *)
(***************************************************************************)
EXTENDS Integers, Sequences, FiniteSets, TLC

\* ------------------------------------------------------------------ bounds
\* fixed-point resolution: the integer n stands for n / Q
Q == 8
\* largest number of calls made on one Simulator after its construction
MaxCalls == 3
\* largest number of controller configurations in a Config
MaxControllers == 2

\* ------------------------------------------------------- program constants
TANK_STATE_SIZE == 1
TANK_INPUT_SIZE == 2
\* smallest and largest accepted timestep (fixed point)
MIN_DT == 2
MAX_DT == 2 * Q

\* -------------------------------------------------------------- arithmetic
Abs(a) == IF a < 0 THEN -a ELSE a

\* integer quotient truncated toward zero, b /= 0
TruncDiv(a, b) ==
  IF (a >= 0) = (b > 0) THEN Abs(a) \div Abs(b) ELSE -(Abs(a) \div Abs(b))

\* fixed-point product and quotient
Mul(a, b) == TruncDiv(a * b, Q)
Div(a, b) == TruncDiv(a * Q, b)

\* the largest r in lo..hi with r*r <= n, by bisection (lo*lo <= n < (hi+1)^2)
RECURSIVE ISqrt(_, _, _)
ISqrt(n, lo, hi) ==
  IF lo >= hi THEN lo
  ELSE LET mid == (lo + hi + 1) \div 2
       IN  IF mid * mid <= n THEN ISqrt(n, mid, hi) ELSE ISqrt(n, lo, mid - 1)

\* fixed-point square root of h >= 0: the largest r with r*r <= h*Q
Sqrt(h) == ISqrt(h * Q, 0, h + Q)

Clamp(v, lo, hi) == IF v < lo THEN lo ELSE IF v > hi THEN hi ELSE v

\* ---------------------------------------------------------------- TankModel
\* q_out = k_v * x * sqrt(h); zero when the tank is empty
outletFlow(params, h, valve_position) ==
  IF h <= 0 THEN 0 ELSE Mul(Mul(params.k_v, valve_position), Sqrt(h))

\* the derivative with the outlet flow left out: dh/dt = q_in / A
derivatives_noOutflow(params, state, inputs) ==
  LET q_in == inputs[1]
  IN  << Div(q_in, params.area) >>

\* dh/dt = (q_in - q_out) / A, returned as a vector of size 1
derivatives(params, state, inputs) ==
  LET h == state[1]
      q_in == inputs[1]
      valve_position == inputs[2]
      q_out == outletFlow(params, h, valve_position)
  IN  << Div(q_in - q_out, params.area) >>

\* ------------------------------------------------------------------ Stepper
\* The callback GSL invokes.  The Eigen view of the C array y is built with
\* ctx->input->size() entries; the user's derivative function (the
\* Simulator's lambda around TankModel::derivatives) is applied to it.
\* Returns the derivative and a record of the call as the user function saw it.
gsl_derivative_wrapper(params, t, y, input) ==
  [ dydt |-> derivatives(params, y, input),
    call |-> [ t |-> t, stateSize |-> Len(input), y |-> y, input |-> input ] ]

\* y + (h * num / den) * k, componentwise
Axpy(y, h, num, den, k) ==
  [ i \in DOMAIN y |-> y[i] + TruncDiv(h * num * k[i], den * Q) ]

\* One classical RK4 step of size h from (t, y0) with k = f(t, y0) already
\* evaluated: three more derivative evaluations, at t+h/2, t+h/2 and t+h.
\* The stages are chained through operator arguments, e2, e3 and e4 being the
\* results of the second, third and fourth evaluation.
rk4_sum(y0, k, h, e2, e3, e4) ==
  [ y |-> Axpy(Axpy(Axpy(Axpy(y0, h, 1, 6, k), h, 1, 3, e2.dydt), h, 1, 3, e3.dydt),
               h, 1, 6, e4.dydt),
    calls |-> << e2.call, e3.call, e4.call >> ]

rk4_stage4(params, y0, k, h, t, input, e2, e3) ==
  rk4_sum(y0, k, h, e2, e3,
          gsl_derivative_wrapper(params, t + h, Axpy(y0, h, 1, 1, e3.dydt), input))

rk4_stage3(params, y0, k, h, t, input, e2) ==
  rk4_stage4(params, y0, k, h, t, input, e2,
             gsl_derivative_wrapper(params, t + TruncDiv(h, 2),
                                    Axpy(y0, h, 1, 2, e2.dydt), input))

rk4_step(params, y0, k, h, t, input) ==
  rk4_stage3(params, y0, k, h, t, input,
             gsl_derivative_wrapper(params, t + TruncDiv(h, 2),
                                    Axpy(y0, h, 1, 2, k), input))

\* gsl_odeiv2_step_apply for gsl_odeiv2_step_rk4 with dydt_in = dydt_out = NULL:
\* the derivative at (t, y) is evaluated (e0), one full step gives the error
\* estimate (one), and two half steps (h1, then em and h2) give the returned y.
rk4_apply_result(y, e0, one, h1, em, h2) ==
  [ y |-> h2.y,
    yerr |-> [ i \in DOMAIN y |-> TruncDiv(4 * (h2.y[i] - one.y[i]), 15) ],
    calls |-> << e0.call >> \o one.calls \o h1.calls \o << em.call >> \o h2.calls ]

rk4_apply_half2(params, t, h, y, input, e0, one, h1, em) ==
  rk4_apply_result(y, e0, one, h1, em,
                   rk4_step(params, h1.y, em.dydt, TruncDiv(h, 2),
                            t + TruncDiv(h, 2), input))

rk4_apply_half1(params, t, h, y, input, e0, one, h1) ==
  rk4_apply_half2(params, t, h, y, input, e0, one, h1,
                  gsl_derivative_wrapper(params, t + TruncDiv(h, 2), h1.y, input))

rk4_apply_full(params, t, h, y, input, e0, one) ==
  rk4_apply_half1(params, t, h, y, input, e0, one,
                  rk4_step(params, y, e0.dydt, TruncDiv(h, 2), t, input))

rk4_apply(params, t, h, y, input, e0) ==
  rk4_apply_full(params, t, h, y, input, e0,
                 rk4_step(params, y, e0.dydt, h, t, input))

\* a stepper that takes one classical RK4 step without the step-doubling
\* error estimate: four derivative evaluations
gsl_odeiv2_step_apply_single(params, t, h, y, input) ==
  LET e0 == gsl_derivative_wrapper(params, t, y, input)
      one == rk4_step(params, y, e0.dydt, h, t, input)
  IN  [ y |-> one.y, yerr |-> [ i \in DOMAIN y |-> 0 ],
        calls |-> << e0.call >> \o one.calls ]

gsl_odeiv2_step_apply(params, t, h, y, input) ==
  rk4_apply(params, t, h, y, input, gsl_derivative_wrapper(params, t, y, input))

\* Stepper::step rejecting only states shorter than the stepper's dimension
Stepper_step_acceptLonger(state_dimension, params, t, dt, state, input) ==
  IF Len(state) < state_dimension
  THEN [ status |-> "runtime_error", result |-> << >>, calls |-> << >> ]
  ELSE LET r == gsl_odeiv2_step_apply(params, t, dt,
                                      SubSeq(state, 1, state_dimension), input)
       IN  [ status |-> "ok", result |-> r.y, calls |-> r.calls ]

\* Stepper::step returning a vector with as many entries as the input vector
Stepper_step_inputSized(state_dimension, params, t, dt, state, input) ==
  IF Len(state) /= state_dimension
  THEN [ status |-> "runtime_error", result |-> << >>, calls |-> << >> ]
  ELSE LET r == gsl_odeiv2_step_apply(params, t, dt, state, input)
       IN  [ status |-> "ok",
             result |-> [ i \in 1..Len(input) |-> IF i <= Len(r.y) THEN r.y[i] ELSE 0 ],
             calls |-> r.calls ]

\* Stepper::step: dimension check, then one GSL step; state and input are
\* taken by const reference and a new vector is returned.
Stepper_step(state_dimension, params, t, dt, state, input) ==
  IF Len(state) /= state_dimension
  THEN [ status |-> "runtime_error", result |-> << >>, calls |-> << >> ]
  ELSE LET r == gsl_odeiv2_step_apply(params, t, dt, state, input)
       IN  [ status |-> "ok", result |-> r.y, calls |-> r.calls ]

\* ------------------------------------------------------------ PIDController
\* PIDController(gains, bias, min_output, max_output, max_integral): the
\* accumulator starts at zero
PIDController(gains, bias, min_output, max_output, max_integral) ==
  [ gains |-> gains, bias |-> bias, min_output |-> min_output,
    max_output |-> max_output, max_integral |-> max_integral,
    integral_state |-> 0 ]

\* compute without the clamp of the accumulator
PID_compute_noIntegralClamp(c, error, error_dot, dt) ==
  LET g == c.gains
      acc == IF g.tau_I = 0 THEN c.integral_state
             ELSE c.integral_state + Mul(Mul(Div(g.Kc, g.tau_I), error), dt)
      p_term == Mul(g.Kc, error)
      d_term == IF g.tau_D = 0 THEN 0 ELSE Mul(Mul(g.Kc, g.tau_D), error_dot)
      raw == c.bias + p_term + acc + d_term
  IN  [ c |-> [ c EXCEPT !.integral_state = acc ],
        output |-> Clamp(raw, c.min_output, c.max_output) ]

\* compute without the final clamp of the output
PID_compute_unclamped(c, error, error_dot, dt) ==
  LET g == c.gains
      acc == IF g.tau_I = 0 THEN c.integral_state
             ELSE c.integral_state + Mul(Mul(Div(g.Kc, g.tau_I), error), dt)
      integral == Clamp(acc, -c.max_integral, c.max_integral)
      p_term == Mul(g.Kc, error)
      d_term == IF g.tau_D = 0 THEN 0 ELSE Mul(Mul(g.Kc, g.tau_D), error_dot)
      raw == c.bias + p_term + integral + d_term
  IN  [ c |-> [ c EXCEPT !.integral_state = integral ], output |-> raw ]

\* compute(error, error_dot, dt): the controller after the call and its output
PID_compute(c, error, error_dot, dt) ==
  LET g == c.gains
      acc == IF g.tau_I = 0 THEN c.integral_state
             ELSE c.integral_state + Mul(Mul(Div(g.Kc, g.tau_I), error), dt)
      integral == Clamp(acc, -c.max_integral, c.max_integral)
      p_term == Mul(g.Kc, error)
      d_term == IF g.tau_D = 0 THEN 0 ELSE Mul(Mul(g.Kc, g.tau_D), error_dot)
      raw == c.bias + p_term + integral + d_term
  IN  [ c |-> [ c EXCEPT !.integral_state = integral ],
        output |-> Clamp(raw, c.min_output, c.max_output) ]

\* setGains: the accumulator is kept
PID_setGains(c, gains) == [ c EXCEPT !.gains = gains ]

\* reset: zeroes the accumulator only
PID_reset(c) == [ c EXCEPT !.integral_state = 0 ]

\* ---------------------------------------------------------------- Simulator
\* element of a vector at a 0-based index
At(v, index) == v[index + 1]
SetAt(v, index, value) == [ v EXCEPT ![index + 1] = value ]
InRange(index, size) == ~(index < 0 \/ index >= size)

\* The members after the constructor's initializer list, before its body.
MemberInit(config) ==
  [ model |-> config.params,
    stepper |-> Len(config.initialState),
    controllers |-> << >>,
    time |-> 0,
    state |-> config.initialState,
    inputs |-> config.initialInputs,
    initialState |-> config.initialState,
    initialInputs |-> config.initialInputs,
    dt |-> config.dt,
    setpoints |-> << >>,
    previousErrors |-> << >>,
    controllerConfig |-> config.controllerConfig ]

NoError == [ check |-> "none", ctrl |-> -1 ]

\* Two passes instead of one loop: every measured index first, then every
\* output index.
CheckControllerIndices_twoPass(cfgs, i, stateSize, inputSize) ==
  LET badM == { j \in i..(Len(cfgs) - 1) : ~InRange(At(cfgs, j).measuredIndex, stateSize) }
      badO == { j \in i..(Len(cfgs) - 1) : ~InRange(At(cfgs, j).outputIndex, inputSize) }
  IN  IF badM /= {}
      THEN [ check |-> "measured_index", ctrl |-> CHOOSE j \in badM : \A k \in badM : j <= k ]
      ELSE IF badO /= {}
      THEN [ check |-> "output_index", ctrl |-> CHOOSE j \in badO : \A k \in badO : j <= k ]
      ELSE NoError

\* The loop over the controller configurations from 0-based position i on:
\* for each controller its measured index, then its output index.
RECURSIVE CheckControllerIndices(_, _, _, _)
CheckControllerIndices(cfgs, i, stateSize, inputSize) ==
  IF i >= Len(cfgs) THEN NoError
  ELSE LET ctrl == At(cfgs, i) IN
       IF ~InRange(ctrl.measuredIndex, stateSize)
       THEN [ check |-> "measured_index", ctrl |-> i ]
       ELSE IF ~InRange(ctrl.outputIndex, inputSize)
       THEN [ check |-> "output_index", ctrl |-> i ]
       ELSE CheckControllerIndices(cfgs, i + 1, stateSize, inputSize)

\* The validation of the constructor body: the first check that throws.
Validate(s, config) ==
  IF Len(s.state) /= TANK_STATE_SIZE THEN [ check |-> "state_size", ctrl |-> -1 ]
  ELSE IF Len(s.inputs) /= TANK_INPUT_SIZE THEN [ check |-> "input_size", ctrl |-> -1 ]
  ELSE IF s.dt <= 0 \/ s.dt < MIN_DT \/ s.dt > MAX_DT THEN [ check |-> "dt", ctrl |-> -1 ]
  ELSE CheckControllerIndices(config.controllerConfig, 0, Len(s.state), Len(s.inputs))

\* CreateControllers without the loop that copies the initial setpoints
CreateControllers_noSetpoints(s, config) ==
  LET cfgs == config.controllerConfig
      ctrls == [ i \in 1..Len(cfgs) |->
                   PIDController(cfgs[i].gains, cfgs[i].bias, cfgs[i].minOutputLimit,
                                 cfgs[i].maxOutputLimit, cfgs[i].maxIntegralAccumulation) ]
  IN  [ s EXCEPT !.controllers = ctrls,
                 !.setpoints = [ i \in 1..Len(ctrls) |-> 0 ],
                 !.previousErrors = [ i \in 1..Len(ctrls) |-> 0 ] ]

\* CreateControllers passing the output limit where the accumulator bound
\* belongs
CreateControllers_outputLimitAsIntegral(s, config) ==
  LET cfgs == config.controllerConfig
      ctrls == [ i \in 1..Len(cfgs) |->
                   PIDController(cfgs[i].gains, cfgs[i].bias, cfgs[i].minOutputLimit,
                                 cfgs[i].maxOutputLimit, cfgs[i].maxOutputLimit) ]
  IN  [ s EXCEPT !.controllers = ctrls,
                 !.setpoints = [ i \in 1..Len(ctrls) |-> s.controllerConfig[i].initialSetpoint ],
                 !.previousErrors = [ i \in 1..Len(ctrls) |-> 0 ] ]

\* Controllers, setpoints and previous errors, created after validation.
CreateControllers(s, config) ==
  LET cfgs == config.controllerConfig
      ctrls == [ i \in 1..Len(cfgs) |->
                   PIDController(cfgs[i].gains, cfgs[i].bias, cfgs[i].minOutputLimit,
                                 cfgs[i].maxOutputLimit, cfgs[i].maxIntegralAccumulation) ]
  IN  [ s EXCEPT !.controllers = ctrls,
                 !.setpoints = [ i \in 1..Len(ctrls) |-> s.controllerConfig[i].initialSetpoint ],
                 !.previousErrors = [ i \in 1..Len(ctrls) |-> 0 ] ]

\* A constructor that creates the controllers before it validates.
Simulator_eager(config) ==
  LET s0 == CreateControllers(MemberInit(config), config)
      err == Validate(s0, config)
  IN  IF err.check /= "none"
      THEN [ s |-> s0, result |-> "invalid_argument", error |-> err ]
      ELSE [ s |-> s0, result |-> "ok", error |-> NoError ]

\* Simulator::Simulator(config): the object (as far as it was built), whether
\* construction completed, and the error thrown
Simulator(config) ==
  LET s0 == MemberInit(config)
      err == Validate(s0, config)
  IN  IF err.check /= "none"
      THEN [ s |-> s0, result |-> "invalid_argument", error |-> err ]
      ELSE [ s |-> CreateControllers(s0, config), result |-> "ok", error |-> NoError ]

\* The controller loop writing each output to the input entry that follows
\* the configured one (wrapping around).
RECURSIVE UpdateControllers_nextIndex(_, _, _)
UpdateControllers_nextIndex(s, i, log) ==
  IF i >= Len(s.controllers) THEN [ s |-> s, ctrlCalls |-> log ]
  ELSE LET measured_index == At(s.controllerConfig, i).measuredIndex
           measured_value == At(s.state, measured_index)
           error == At(s.setpoints, i) - measured_value
           error_dot == Div(error - At(s.previousErrors, i), s.dt)
           r == PID_compute(At(s.controllers, i), error, error_dot, s.dt)
           output_index == (At(s.controllerConfig, i).outputIndex + 1) % Len(s.inputs)
           s2 == [ s EXCEPT !.controllers = SetAt(s.controllers, i, r.c),
                            !.inputs = SetAt(s.inputs, output_index, r.output),
                            !.previousErrors = SetAt(s.previousErrors, i, error) ]
       IN  UpdateControllers_nextIndex(s2, i + 1,
             Append(log, [ error |-> error, error_dot |-> error_dot,
                           dt |-> s.dt, output |-> r.output ]))

\* The controller loop without the store to previousErrors[i].
RECURSIVE UpdateControllers_noPrev(_, _, _)
UpdateControllers_noPrev(s, i, log) ==
  IF i >= Len(s.controllers) THEN [ s |-> s, ctrlCalls |-> log ]
  ELSE LET measured_index == At(s.controllerConfig, i).measuredIndex
           measured_value == At(s.state, measured_index)
           error == At(s.setpoints, i) - measured_value
           error_dot == Div(error - At(s.previousErrors, i), s.dt)
           r == PID_compute(At(s.controllers, i), error, error_dot, s.dt)
           output_index == At(s.controllerConfig, i).outputIndex
           s2 == [ s EXCEPT !.controllers = SetAt(s.controllers, i, r.c),
                            !.inputs = SetAt(s.inputs, output_index, r.output) ]
       IN  UpdateControllers_noPrev(s2, i + 1,
             Append(log, [ error |-> error, error_dot |-> error_dot,
                           dt |-> s.dt, output |-> r.output ]))

\* The controller loop in which an input entry already written in this tick
\* by an earlier controller is not overwritten.
RECURSIVE UpdateControllers_firstWins(_, _, _)
UpdateControllers_firstWins(s, i, log) ==
  IF i >= Len(s.controllers) THEN [ s |-> s, ctrlCalls |-> log ]
  ELSE LET measured_index == At(s.controllerConfig, i).measuredIndex
           measured_value == At(s.state, measured_index)
           error == At(s.setpoints, i) - measured_value
           error_dot == Div(error - At(s.previousErrors, i), s.dt)
           r == PID_compute(At(s.controllers, i), error, error_dot, s.dt)
           output_index == At(s.controllerConfig, i).outputIndex
           written == \E j \in 0..(i - 1) :
                        At(s.controllerConfig, j).outputIndex = output_index
           s2 == [ s EXCEPT !.controllers = SetAt(s.controllers, i, r.c),
                            !.inputs = IF written THEN s.inputs
                                       ELSE SetAt(s.inputs, output_index, r.output),
                            !.previousErrors = SetAt(s.previousErrors, i, error) ]
       IN  UpdateControllers_firstWins(s2, i + 1,
             Append(log, [ error |-> error, error_dot |-> error_dot,
                           dt |-> s.dt, output |-> r.output ]))

\* Step 3 of step(): the controllers from 0-based position i on, in
\* configuration order; log collects what each controller was called with.
RECURSIVE UpdateControllers(_, _, _)
UpdateControllers(s, i, log) ==
  IF i >= Len(s.controllers) THEN [ s |-> s, ctrlCalls |-> log ]
  ELSE LET measured_index == At(s.controllerConfig, i).measuredIndex
           measured_value == At(s.state, measured_index)
           error == At(s.setpoints, i) - measured_value
           error_dot == Div(error - At(s.previousErrors, i), s.dt)
           r == PID_compute(At(s.controllers, i), error, error_dot, s.dt)
           output_index == At(s.controllerConfig, i).outputIndex
           s2 == [ s EXCEPT !.controllers = SetAt(s.controllers, i, r.c),
                            !.inputs = SetAt(s.inputs, output_index, r.output),
                            !.previousErrors = SetAt(s.previousErrors, i, error) ]
       IN  UpdateControllers(s2, i + 1,
             Append(log, [ error |-> error, error_dot |-> error_dot,
                           dt |-> s.dt, output |-> r.output ]))

\* Same-tick feedback: the controllers run first and the integrator then uses
\* the inputs they have just written.
step_sameTick(s) ==
  LET u == UpdateControllers(s, 0, << >>)
      r == Stepper_step(s.stepper, s.model, s.time, s.dt, u.s.state, u.s.inputs)
  IN  IF r.status /= "ok"
      THEN [ s |-> s, result |-> r.status, derivCalls |-> r.calls, ctrlCalls |-> << >> ]
      ELSE [ s |-> [ u.s EXCEPT !.state = r.result, !.time = s.time + s.dt ],
             result |-> "ok", derivCalls |-> r.calls, ctrlCalls |-> u.ctrlCalls ]

\* step() advancing the clock before the integrator's result is known
step_from_clockFirst(s, r) ==
  IF r.status /= "ok"
  THEN [ s |-> [ s EXCEPT !.time = s.time + s.dt ], result |-> r.status,
         derivCalls |-> r.calls, ctrlCalls |-> << >> ]
  ELSE LET s1 == [ s EXCEPT !.state = r.result, !.time = s.time + s.dt ]
           u == UpdateControllers(s1, 0, << >>)
       IN  [ s |-> u.s, result |-> "ok", derivCalls |-> r.calls,
             ctrlCalls |-> u.ctrlCalls ]

\* Simulator::step() from the outcome r of stepper.step(...): an exception
\* leaves the statement state = stepper.step(...) and the function before
\* anything is assigned; otherwise the state is replaced, the clock advances
\* and every controller is updated
step_from(s, r) ==
  IF r.status /= "ok"
  THEN [ s |-> s, result |-> r.status, derivCalls |-> r.calls, ctrlCalls |-> << >> ]
  ELSE LET s1 == [ s EXCEPT !.state = r.result, !.time = s.time + s.dt ]
           u == UpdateControllers(s1, 0, << >>)
       IN  [ s |-> u.s, result |-> "ok", derivCalls |-> r.calls,
             ctrlCalls |-> u.ctrlCalls ]

\* Simulator::step(): integrate with the current inputs, advance the clock,
\* then update every controller
step(s) ==
  step_from(s, Stepper_step(s.stepper, s.model, s.time, s.dt, s.state, s.inputs))

\* The ways stepper.step(...) can throw in a constructed Simulator, whose
\* state always has the Stepper's dimension: std::bad_alloc from the
\* allocation of the work arrays, before any derivative evaluation, and
\* std::runtime_error when gsl_odeiv2_step_apply reports a failure.
IntegratorFailures(s) ==
  { [ status |-> "bad_alloc", result |-> << >>, calls |-> << >> ],
    [ status |-> "runtime_error", result |-> << >>,
      calls |-> Stepper_step(s.stepper, s.model, s.time, s.dt, s.state, s.inputs).calls ] }

\* ------------------------------------------------------------------ getters
getTime(s) == [ s |-> s, result |-> "ok", value |-> s.time ]
getState(s) == [ s |-> s, result |-> "ok", value |-> s.state ]
getInputs(s) == [ s |-> s, result |-> "ok", value |-> s.inputs ]

OutOfRange(s) == [ s |-> s, result |-> "out_of_range", value |-> 0 ]

getSetpoint(s, index) ==
  IF index < 0 \/ index >= Len(s.setpoints) THEN OutOfRange(s)
  ELSE [ s |-> s, result |-> "ok", value |-> At(s.setpoints, index) ]

\* getControllerOutput that recomputes the output from the current error
\* instead of reading the input vector
getControllerOutput_recompute(s, index) ==
  IF index < 0 \/ index >= Len(s.controllers) THEN OutOfRange(s)
  ELSE LET e == At(s.setpoints, index)
                  - At(s.state, At(s.controllerConfig, index).measuredIndex)
       IN  [ s |-> s, result |-> "ok",
             value |-> PID_compute(At(s.controllers, index), e,
                                   Div(e - At(s.previousErrors, index), s.dt),
                                   s.dt).output ]

getControllerOutput(s, index) ==
  IF index < 0 \/ index >= Len(s.controllers) THEN OutOfRange(s)
  ELSE [ s |-> s, result |-> "ok",
         value |-> At(s.inputs, At(s.controllerConfig, index).outputIndex) ]

\* getError that also stores the error it computed as the previous error
getError_store(s, index) ==
  IF index < 0 \/ index >= Len(s.controllers) THEN OutOfRange(s)
  ELSE LET e == At(s.setpoints, index)
                  - At(s.state, At(s.controllerConfig, index).measuredIndex)
       IN  [ s |-> [ s EXCEPT !.previousErrors = SetAt(s.previousErrors, index, e) ],
             result |-> "ok", value |-> e ]

\* getError that returns the error stored by the last step()
getError_previous(s, index) ==
  IF index < 0 \/ index >= Len(s.controllers) THEN OutOfRange(s)
  ELSE [ s |-> s, result |-> "ok", value |-> At(s.previousErrors, index) ]

getError(s, index) ==
  IF index < 0 \/ index >= Len(s.controllers) THEN OutOfRange(s)
  ELSE [ s |-> s, result |-> "ok",
         value |-> At(s.setpoints, index)
                     - At(s.state, At(s.controllerConfig, index).measuredIndex) ]

\* ------------------------------------------------------------------ setters
\* setInput that writes the value to every entry of the input vector
setInput_fill(s, index, value) ==
  IF index < 0 \/ index >= Len(s.inputs) THEN OutOfRange(s)
  ELSE [ s |-> [ s EXCEPT !.inputs = [ k \in DOMAIN s.inputs |-> value ] ],
         result |-> "ok", value |-> 0 ]

setInput(s, index, value) ==
  IF index < 0 \/ index >= Len(s.inputs) THEN OutOfRange(s)
  ELSE [ s |-> [ s EXCEPT !.inputs = SetAt(s.inputs, index, value) ],
         result |-> "ok", value |-> 0 ]

\* setSetpoint that also clears the controller's previous error
setSetpoint_clearPrevious(s, index, value) ==
  IF index < 0 \/ index >= Len(s.setpoints) THEN OutOfRange(s)
  ELSE [ s |-> [ s EXCEPT !.setpoints = SetAt(s.setpoints, index, value),
                          !.previousErrors = SetAt(s.previousErrors, index, 0) ],
         result |-> "ok", value |-> 0 ]

\* setSetpoint with an off-by-one upper bound in its index check
setSetpoint_offByOne(s, index, value) ==
  IF index < 0 \/ index > Len(s.setpoints) THEN OutOfRange(s)
  ELSE [ s |-> [ s EXCEPT !.setpoints = SetAt(s.setpoints, index, value) ],
         result |-> "ok", value |-> 0 ]

setSetpoint(s, index, value) ==
  IF index < 0 \/ index >= Len(s.setpoints) THEN OutOfRange(s)
  ELSE [ s |-> [ s EXCEPT !.setpoints = SetAt(s.setpoints, index, value) ],
         result |-> "ok", value |-> 0 ]

\* setControllerGains that also resets the controller's accumulator
setControllerGains_resetIntegral(s, index, gains) ==
  IF index < 0 \/ index >= Len(s.controllers) THEN OutOfRange(s)
  ELSE [ s |-> [ s EXCEPT !.controllers =
                   SetAt(s.controllers, index,
                         PID_reset(PID_setGains(At(s.controllers, index), gains))) ],
         result |-> "ok", value |-> 0 ]

setControllerGains(s, index, gains) ==
  IF index < 0 \/ index >= Len(s.controllers) THEN OutOfRange(s)
  ELSE [ s |-> [ s EXCEPT !.controllers =
                   SetAt(s.controllers, index, PID_setGains(At(s.controllers, index), gains)) ],
         result |-> "ok", value |-> 0 ]

\* reset() without the std::fill of the previous errors
reset_keepPreviousErrors(s) ==
  [ s EXCEPT !.time = 0,
             !.state = s.initialState,
             !.inputs = s.initialInputs,
             !.controllers = [ i \in DOMAIN s.controllers |-> PID_reset(s.controllers[i]) ],
             !.setpoints = [ i \in DOMAIN s.setpoints |->
                               IF i <= Len(s.controllers)
                               THEN s.controllerConfig[i].initialSetpoint
                               ELSE s.setpoints[i] ] ]

\* reset() without the assignment time = 0.0
reset_keepTime(s) ==
  [ s EXCEPT !.state = s.initialState,
             !.inputs = s.initialInputs,
             !.controllers = [ i \in DOMAIN s.controllers |-> PID_reset(s.controllers[i]) ],
             !.setpoints = [ i \in DOMAIN s.setpoints |->
                               IF i <= Len(s.controllers)
                               THEN s.controllerConfig[i].initialSetpoint
                               ELSE s.setpoints[i] ],
             !.previousErrors = [ i \in DOMAIN s.previousErrors |-> 0 ] ]

\* Simulator::reset()
reset(s) ==
  [ s EXCEPT !.time = 0,
             !.state = s.initialState,
             !.inputs = s.initialInputs,
             !.controllers = [ i \in DOMAIN s.controllers |-> PID_reset(s.controllers[i]) ],
             !.setpoints = [ i \in DOMAIN s.setpoints |->
                               IF i <= Len(s.controllers)
                               THEN s.controllerConfig[i].initialSetpoint
                               ELSE s.setpoints[i] ],
             !.previousErrors = [ i \in DOMAIN s.previousErrors |-> 0 ] ]

\* ------------------------------------------------------------ configurations
Params == [ area |-> Q, k_v |-> Q, max_height |-> 8 * Q ]

InitialGains == [ Kc |-> -Q, tau_I |-> 2 * Q, tau_D |-> 0 ]
\* gains a caller retunes to
GainsValues == { [ Kc |-> Q \div 2, tau_I |-> 0, tau_D |-> Q ] }

\* a controller configuration; the controller of input 0 (inlet flow) has a
\* wider output range and a setpoint above the initial level
ControllerConfig(measuredIndex, outputIndex) ==
  [ gains |-> InitialGains,
    bias |-> IF outputIndex = 0 THEN Q ELSE Q \div 2,
    minOutputLimit |-> 0,
    maxOutputLimit |-> IF outputIndex = 0 THEN 2 * Q ELSE Q,
    maxIntegralAccumulation |-> Q,
    measuredIndex |-> measuredIndex,
    outputIndex |-> outputIndex,
    initialSetpoint |-> IF outputIndex = 0 THEN 5 * Q ELSE 4 * Q ]

ControllerConfigs ==
  { ControllerConfig(m, o) : m \in -1..TANK_STATE_SIZE, o \in -1..TANK_INPUT_SIZE }

ControllerLists ==
  UNION { [ 1..n -> ControllerConfigs ] : n \in 0..MaxControllers }

\* level 4.0 with inflow 1.0 and valve 0.5 is a steady state of Params
StateVectors == { << 4 * Q >>, << 4 * Q, 0 >> }
InputVectors == { << Q >>, << Q, Q \div 2 >> }
DtValues == { -Q, 0, 1, Q \div 2, Q, 3 * Q }

ConfigSet ==
  { [ params |-> Params, controllerConfig |-> cl, initialState |-> x0,
      initialInputs |-> u0, dt |-> d ] :
      cl \in ControllerLists, x0 \in StateVectors, u0 \in InputVectors, d \in DtValues }

\* arguments callers pass
IndexValues == -1..MaxControllers
InputValues == { (3 * Q) \div 2 }
SetpointValues == { 3 * Q }

\* what a caller may turn its Config object into after construction: other
\* initial vectors, another timestep and other tank parameters, or other
\* controller configurations (setpoints and output indices changed, one
\* controller more)
MutatedConfigs(c) ==
  { [ c EXCEPT !.initialState = << 5 * Q >>, !.initialInputs = << 0, Q >> ],
    [ c EXCEPT !.dt = 2 * Q, !.params = [ area |-> 2 * Q, k_v |-> Q \div 2,
                                          max_height |-> 8 * Q ] ],
    [ c EXCEPT !.controllerConfig =
        Append([ i \in DOMAIN c.controllerConfig |->
                   [ c.controllerConfig[i] EXCEPT !.initialSetpoint = 2 * Q,
                                                  !.outputIndex = 1 - @ ] ],
               [ ControllerConfig(0, 0) EXCEPT !.initialSetpoint = 2 * Q ]) ] }

\* a PIDController a caller builds and calls directly, and the arguments of
\* its calls
StandaloneController == PIDController(InitialGains, Q, 0, 2 * Q, Q)
PIDGainValues == GainsValues \cup { [ Kc |-> 2 * Q, tau_I |-> Q \div 2, tau_D |-> Q ] }
ErrorValues == { -2 * Q, -1, 0, 2 * Q }
ErrorRateValues == { -Q, Q }
PIDDtValues == { Q \div 2 }

\* -------------------------------------------------------------------- state
VARIABLES
  config,    \* the Config value the constructor received
  callerConfig, \* the caller's Config object, as it is now
  sim,       \* the Simulator under test (as far as its constructor built it)
  live,      \* TRUE iff its constructor completed
  ref,       \* a second Simulator built from the same Config, never reset
  tracking,  \* TRUE iff ref is driven along with sim (constant in a behaviour)
  phase,     \* "fresh", "used", "reset_fresh" or "reset_used" (when tracking)
  calls,     \* calls made on sim since construction
  ticks,     \* step() calls on sim since construction or the last reset()
  lastCall,  \* the last call on sim: operation, arguments, outcome
  pid,       \* a PIDController used on its own
  pidCall,   \* the last call on pid: operation, arguments, output
  stepperCall \* a Stepper used on its own: its dimension and its last call

vars == << config, callerConfig, sim, live, ref, tracking, phase, calls, ticks,
           lastCall, pid, pidCall, stepperCall >>

Call(op, index, arg, result) ==
  [ op |-> op, index |-> index, arg |-> arg, result |-> result,
    error |-> NoError, derivCalls |-> << >>, ctrlCalls |-> << >> ]

\* ref receives the calls made on sim after sim's reset()
Synced == phase \in { "reset_fresh", "reset_used" }

\* Construction of sim (and of ref) from the configuration c
Constructed(c) ==
    LET r == Simulator(c) IN
      /\ config = c
      /\ callerConfig = c
      /\ sim = r.s
      /\ live = (r.result = "ok")
      /\ ref = r.s
      /\ phase = "fresh"
      /\ calls = 0
      /\ ticks = 0
      /\ lastCall = [ Call("construct", -1, 0, r.result) EXCEPT !.error = r.error ]

PidCall(op, error, error_dot, dt, output) ==
  [ op |-> op, error |-> error, error_dot |-> error_dot, dt |-> dt, output |-> output ]

\* Construction of the standalone controller and of the standalone Stepper
\* (of the tank model's state dimension)
PIDConstructed ==
  /\ pid = StandaloneController
  /\ pidCall = PidCall("construct", 0, 0, 0, 0)
  /\ stepperCall = [ op |-> "construct", state_dimension |-> TANK_STATE_SIZE,
                     t |-> 0, dt |-> 0, state |-> << >>, input |-> << >>,
                     status |-> "ok", result |-> << >>, calls |-> << >> ]

\* Construction with any configuration of ConfigSet
Init == tracking = FALSE /\ PIDConstructed /\ \E c \in ConfigSet : Constructed(c)

\* Construction with any valid configuration, ref driven along with sim
InitRef ==
  /\ tracking = TRUE
  /\ PIDConstructed
  /\ \E c \in ConfigSet : Simulator(c).result = "ok" /\ Constructed(c)

\* Construction with any valid configuration
InitLive ==
  /\ tracking = FALSE
  /\ PIDConstructed
  /\ \E c \in ConfigSet : Simulator(c).result = "ok" /\ Constructed(c)

\* calls on the Simulator are made while the standalone controller and the
\* standalone Stepper are unused
CanCall ==
  /\ live /\ calls < MaxCalls
  /\ pidCall.op = "construct" /\ stepperCall.op = "construct"

\* bookkeeping common to every call but reset()
Called ==
  /\ calls' = calls + 1
  /\ phase' = IF tracking /\ phase = "fresh" THEN "used" ELSE phase
  /\ UNCHANGED << config, callerConfig, live, tracking, pid, pidCall, stepperCall >>

Step ==
  /\ CanCall
  /\ \E r \in { step(sim) } :
       /\ sim' = r.s
       /\ ref' = IF Synced THEN step(ref).s ELSE ref
       /\ ticks' = IF r.result = "ok" THEN ticks + 1 ELSE ticks
       /\ lastCall' = [ Call("step", -1, 0, r.result) EXCEPT
                          !.derivCalls = r.derivCalls, !.ctrlCalls = r.ctrlCalls ]
  /\ Called

\* reset() that reads the initial conditions and setpoints from the caller's
\* Config object instead of the Simulator's copies
Reset_fromCallerConfig ==
  /\ CanCall
  /\ sim' = [ reset(sim) EXCEPT
               !.state = callerConfig.initialState,
               !.inputs = callerConfig.initialInputs,
               !.setpoints = [ i \in DOMAIN sim.setpoints |->
                                 IF i <= Len(callerConfig.controllerConfig)
                                 THEN callerConfig.controllerConfig[i].initialSetpoint
                                 ELSE sim.setpoints[i] ] ]
  /\ ref' = IF tracking THEN Simulator(config).s ELSE ref
  /\ phase' = IF ~tracking THEN phase
            ELSE IF phase = "fresh" THEN "reset_fresh" ELSE "reset_used"
  /\ calls' = calls + 1
  /\ ticks' = 0
  /\ lastCall' = Call("reset", -1, 0, "ok")
  /\ UNCHANGED << config, callerConfig, live, tracking, pid, pidCall, stepperCall >>

Reset ==
  /\ CanCall
  /\ sim' = reset(sim)
  /\ ref' = IF tracking THEN Simulator(config).s ELSE ref
  /\ phase' = IF ~tracking THEN phase
            ELSE IF phase = "fresh" THEN "reset_fresh" ELSE "reset_used"
  /\ calls' = calls + 1
  /\ ticks' = 0
  /\ lastCall' = Call("reset", -1, 0, "ok")
  /\ UNCHANGED << config, callerConfig, live, tracking, pid, pidCall, stepperCall >>

GetTime ==
  /\ CanCall
  /\ sim' = getTime(sim).s
  /\ ref' = IF Synced THEN getTime(ref).s ELSE ref
  /\ lastCall' = Call("getTime", -1, 0, getTime(sim).result)
  /\ UNCHANGED ticks
  /\ Called

GetState ==
  /\ CanCall
  /\ sim' = getState(sim).s
  /\ ref' = IF Synced THEN getState(ref).s ELSE ref
  /\ lastCall' = Call("getState", -1, 0, getState(sim).result)
  /\ UNCHANGED ticks
  /\ Called

GetInputs ==
  /\ CanCall
  /\ sim' = getInputs(sim).s
  /\ ref' = IF Synced THEN getInputs(ref).s ELSE ref
  /\ lastCall' = Call("getInputs", -1, 0, getInputs(sim).result)
  /\ UNCHANGED ticks
  /\ Called

GetSetpoint(index) ==
  /\ CanCall
  /\ sim' = getSetpoint(sim, index).s
  /\ ref' = IF Synced THEN getSetpoint(ref, index).s ELSE ref
  /\ lastCall' = Call("getSetpoint", index, 0, getSetpoint(sim, index).result)
  /\ UNCHANGED ticks
  /\ Called

GetControllerOutput(index) ==
  /\ CanCall
  /\ sim' = getControllerOutput(sim, index).s
  /\ ref' = IF Synced THEN getControllerOutput(ref, index).s ELSE ref
  /\ lastCall' = Call("getControllerOutput", index, 0, getControllerOutput(sim, index).result)
  /\ UNCHANGED ticks
  /\ Called

GetError(index) ==
  /\ CanCall
  /\ sim' = getError(sim, index).s
  /\ ref' = IF Synced THEN getError(ref, index).s ELSE ref
  /\ lastCall' = Call("getError", index, 0, getError(sim, index).result)
  /\ UNCHANGED ticks
  /\ Called

SetInput(index, value) ==
  /\ CanCall
  /\ sim' = setInput(sim, index, value).s
  /\ ref' = IF Synced THEN setInput(ref, index, value).s ELSE ref
  /\ lastCall' = Call("setInput", index, value, setInput(sim, index, value).result)
  /\ UNCHANGED ticks
  /\ Called

SetSetpoint(index, value) ==
  /\ CanCall
  /\ sim' = setSetpoint(sim, index, value).s
  /\ ref' = IF Synced THEN setSetpoint(ref, index, value).s ELSE ref
  /\ lastCall' = Call("setSetpoint", index, value, setSetpoint(sim, index, value).result)
  /\ UNCHANGED ticks
  /\ Called

SetControllerGains(index, gains) ==
  /\ CanCall
  /\ sim' = setControllerGains(sim, index, gains).s
  /\ ref' = IF Synced THEN setControllerGains(ref, index, gains).s ELSE ref
  /\ lastCall' = Call("setControllerGains", index, gains,
                      setControllerGains(sim, index, gains).result)
  /\ UNCHANGED ticks
  /\ Called

Next ==
  \/ Step
  \/ Reset
  \/ GetTime
  \/ GetState
  \/ GetInputs
  \/ \E i \in IndexValues : GetSetpoint(i)
  \/ \E i \in IndexValues : GetControllerOutput(i)
  \/ \E i \in IndexValues : GetError(i)
  \/ \E i \in IndexValues, v \in InputValues : SetInput(i, v)
  \/ \E i \in IndexValues, v \in SetpointValues : SetSetpoint(i, v)
  \/ \E i \in IndexValues, g \in GainsValues : SetControllerGains(i, g)

Spec == Init /\ [][Next]_vars

SpecRef == InitRef /\ [][Next]_vars

\* ------------------------------------------ the caller changes its Config
\* The caller assigns to the Config object it constructed the Simulator
\* from; the constructor took it by const reference and copied its members.
MutateConfig ==
  /\ CanCall
  /\ callerConfig' \in MutatedConfigs(callerConfig)
  /\ lastCall' = Call("mutateConfig", -1, 0, "ok")
  /\ calls' = calls + 1
  /\ UNCHANGED << config, sim, live, ref, tracking, phase, ticks, pid, pidCall,
                  stepperCall >>

NextCopy == Next \/ MutateConfig

SpecCopy == InitLive /\ [][NextCopy]_vars

\* --------------------------------------------- the standalone PIDController
\* calls on the standalone controller are made while the Simulator and the
\* standalone Stepper are unused
PIDCanCall == calls = 0 /\ stepperCall.op = "construct"

PIDCompute(error, error_dot, dt) ==
  /\ PIDCanCall
  /\ \E r \in { PID_compute(pid, error, error_dot, dt) } :
       /\ pid' = r.c
       /\ pidCall' = PidCall("compute", error, error_dot, dt, r.output)
  /\ UNCHANGED << config, callerConfig, sim, live, ref, tracking, phase, calls, ticks,
                  lastCall, stepperCall >>

PIDSetGains(gains) ==
  /\ PIDCanCall
  /\ pid' = PID_setGains(pid, gains)
  /\ pidCall' = PidCall("setGains", 0, 0, 0, 0)
  /\ UNCHANGED << config, callerConfig, sim, live, ref, tracking, phase, calls, ticks,
                  lastCall, stepperCall >>

PIDReset ==
  /\ PIDCanCall
  /\ pid' = PID_reset(pid)
  /\ pidCall' = PidCall("reset", 0, 0, 0, 0)
  /\ UNCHANGED << config, callerConfig, sim, live, ref, tracking, phase, calls, ticks,
                  lastCall, stepperCall >>

NextPID ==
  \/ Next
  \/ \E e \in ErrorValues, ed \in ErrorRateValues, d \in PIDDtValues : PIDCompute(e, ed, d)
  \/ \E g \in PIDGainValues : PIDSetGains(g)
  \/ PIDReset

SpecPID == InitLive /\ [][NextPID]_vars

\* ------------------------------------------------ the integrator may fail
\* step() in which stepper.step(...) throws
StepFails ==
  /\ CanCall
  /\ \E f \in IntegratorFailures(sim) :
       \E r \in { step_from(sim, f) } :
         /\ sim' = r.s
         /\ ticks' = IF r.result = "ok" THEN ticks + 1 ELSE ticks
         /\ lastCall' = [ Call("step", -1, 0, r.result) EXCEPT
                            !.derivCalls = r.derivCalls, !.ctrlCalls = r.ctrlCalls ]
  /\ ref' = ref
  /\ Called

NextFail ==
  \/ Next
  \/ StepFails

SpecFail == InitLive /\ [][NextFail]_vars

\* ------------------------------------------------- Stepper used on its own
\* A Stepper of the tank model's state dimension, stepped directly with the
\* tank model's derivative function.
StepperStateVectors == { << >>, << 4 * Q >>, << 0 >>, << 4 * Q, 0 >> }

StepperInputVectors == { << Q, Q \div 2 >>, << 0, Q >>, << Q, Q \div 2, 0 >> }

StepperTimes == { 0, Q }

StepperDtValues == { Q \div 2, Q }

StepperCanCall == calls = 0 /\ pidCall.op = "construct"

\* Stepper::step(t, dt, state, input, deriv_func): state and input are const
\* references: the call record keeps the caller's vectors, which the call
\* cannot change.
StepperStep(t, dt, state, input) ==
  /\ StepperCanCall
  /\ \E r \in { Stepper_step(stepperCall.state_dimension, Params, t, dt, state, input) } :
       stepperCall' = [ op |-> "step", state_dimension |-> stepperCall.state_dimension,
                        t |-> t, dt |-> dt, state |-> state, input |-> input,
                        status |-> r.status, result |-> r.result, calls |-> r.calls ]
  /\ UNCHANGED << config, callerConfig, sim, live, ref, tracking, phase, calls, ticks,
                  lastCall, pid, pidCall >>

NextStepper ==
  \/ Next
  \/ \E t \in StepperTimes, dt \in StepperDtValues,
        state \in StepperStateVectors, input \in StepperInputVectors :
          StepperStep(t, dt, state, input)

SpecStepper == InitLive /\ [][NextStepper]_vars

\* ------------------------------------------------------ runs of 100 ticks
\* SimulatorTest.SteadyStateRemainsSteady: a Simulator is constructed and
\* step() is called 100 times in a row.
SteadyTicks == 100

\* controllers of the level: the test's (bias equal to the initial valve
\* position, setpoint equal to the initial level), one with another bias, one
\* with a bias above its output range, and two acting on the inlet flow
SteadyControllerConfigs ==
  { ControllerConfig(0, 1),
    [ ControllerConfig(0, 1) EXCEPT !.bias = 0 ],
    [ ControllerConfig(0, 1) EXCEPT !.bias = 2 * Q ],
    [ ControllerConfig(0, 0) EXCEPT !.initialSetpoint = 4 * Q ],
    ControllerConfig(0, 0) }

SteadyControllerLists ==
  UNION { [ 1..n -> SteadyControllerConfigs ] : n \in 0..2 }

\* levels 4.0 and 1.0; inflow 1.0 with the valve half open, inflow 2.0 with
\* the valve fully open: both balance the outlet flow at level 4.0
SteadyConfigSet ==
  { [ params |-> Params, controllerConfig |-> cl, initialState |-> x0,
      initialInputs |-> u0, dt |-> d ] :
      cl \in SteadyControllerLists, x0 \in { << 4 * Q >>, << Q >> },
      u0 \in { << Q, Q \div 2 >>, << 2 * Q, Q >> }, d \in { Q \div 2, Q } }

InitSteady ==
  /\ tracking = FALSE
  /\ PIDConstructed
  /\ \E c \in SteadyConfigSet : Simulator(c).result = "ok" /\ Constructed(c)

\* one iteration of the test's loop
SteadyStep ==
  /\ live /\ ticks < SteadyTicks
  /\ \E r \in { step(sim) } :
       /\ sim' = r.s
       /\ ticks' = IF r.result = "ok" THEN ticks + 1 ELSE ticks
       /\ lastCall' = [ Call("step", -1, 0, r.result) EXCEPT
                          !.derivCalls = r.derivCalls, !.ctrlCalls = r.ctrlCalls ]
  /\ calls' = calls + 1
  /\ UNCHANGED << config, callerConfig, live, ref, tracking, phase, pid, pidCall,
                  stepperCall >>

SpecSteady == InitSteady /\ [][SteadyStep]_vars

\* =================================================================== claims
\* what a caller can observe of a Simulator: time, state, inputs, setpoints
\* and controller outputs
Observables(s) ==
  [ time |-> getTime(s).value,
    state |-> getState(s).value,
    inputs |-> getInputs(s).value,
    setpoints |-> [ i \in 1..Len(s.setpoints) |-> getSetpoint(s, i - 1).value ],
    outputs |-> [ i \in 1..Len(s.controllers) |-> getControllerOutput(s, i - 1).value ] ]

\* C1 (as claimed): after reset(), whatever calls preceded it, every call
\* sequence leaves sim with the same time, state, inputs, setpoints and
\* controller outputs as the same sequence leaves a freshly constructed
\* Simulator (ref).
C1_ResetReproducesFresh == Synced => Observables(sim) = Observables(ref)

\* C2: immediately after reset() time is 0, state and inputs have their
\* construction-time values, every accumulator and previous error is 0 and
\* every setpoint is its configuration's initial setpoint.
C2_ResetRestores ==
  lastCall.op = "reset" =>
    /\ sim.time = 0
    /\ sim.state = config.initialState
    /\ sim.inputs = config.initialInputs
    /\ \A i \in 1..Len(sim.controllers) : sim.controllers[i].integral_state = 0
    /\ Len(sim.previousErrors) = Len(config.controllerConfig)
    /\ \A i \in 1..Len(sim.previousErrors) : sim.previousErrors[i] = 0
    /\ Len(sim.setpoints) = Len(config.controllerConfig)
    /\ \A i \in 1..Len(sim.setpoints) :
         sim.setpoints[i] = config.controllerConfig[i].initialSetpoint

\* a reset() that followed two earlier calls, one of them a retuning
C2_Witness ==
  /\ lastCall.op = "reset"
  /\ calls = 3
  /\ Len(sim.controllers) = 2
  /\ sim.controllers[1].gains /= InitialGains

\* C3: reset() on a freshly constructed Simulator is a no-op: the calls that
\* follow leave sim as they leave a Simulator that was never reset (ref), so
\* the trajectories (time, state, inputs) agree after every tick.
C3_ResetOnFreshIsNoOp ==
  phase = "reset_fresh" =>
    /\ sim = ref
    /\ sim.time = ref.time /\ sim.state = ref.state /\ sim.inputs = ref.inputs

\* two ticks after a reset() that immediately followed construction, with a
\* controller acting and the level away from its initial value
C3_Witness ==
  /\ phase = "reset_fresh"
  /\ ticks = 2
  /\ Len(sim.controllers) >= 1
  /\ sim.state /= sim.initialState

StepDone == lastCall'.op = "step" /\ lastCall'.result = "ok"

\* C4: one-tick input lag.  Every derivative evaluation of a step() receives
\* the input vector as it stood before the step, the new state is the
\* integrator's result for those inputs, and the outputs computed in the step
\* are in the input vector only afterwards.
C4_OneTickLag ==
  [][ StepDone =>
        /\ Len(lastCall'.derivCalls) > 0
        /\ \A k \in 1..Len(lastCall'.derivCalls) : lastCall'.derivCalls[k].input = sim.inputs
        /\ sim'.state = Stepper_step(sim.stepper, sim.model, sim.time, sim.dt,
                                     sim.state, sim.inputs).result
        /\ \A i \in 1..Len(sim.controllers) :
             (\A j \in (i + 1)..Len(sim.controllers) :
                sim.controllerConfig[j].outputIndex /= sim.controllerConfig[i].outputIndex)
             => At(sim'.inputs, sim.controllerConfig[i].outputIndex)
                  = lastCall'.ctrlCalls[i].output
    ]_vars

\* a step() in which a controller changed the input the integrator had used
C4_Witness ==
  /\ lastCall.op = "step" /\ lastCall.result = "ok"
  /\ Len(sim.controllers) >= 1
  /\ \E k \in 1..Len(lastCall.derivCalls) : lastCall.derivCalls[k].input /= sim.inputs
  /\ ticks = 2

C6_Clock ==
  live => /\ sim.dt = config.dt
          /\ sim.time = ticks * config.dt
          /\ sim.time >= 0

\* three ticks after construction
C6_Witness == live /\ ticks = 3 /\ sim.time = 3 * config.dt /\ config.dt = Q \div 2

\* the checks a configuration violates, each as the error it would raise
ViolatedChecks(c) ==
  LET n == Len(c.controllerConfig) IN
    { e \in { [ check |-> "state_size", ctrl |-> -1 ] } :
        Len(c.initialState) /= TANK_STATE_SIZE }
    \cup { e \in { [ check |-> "input_size", ctrl |-> -1 ] } :
        Len(c.initialInputs) /= TANK_INPUT_SIZE }
    \cup { e \in { [ check |-> "dt", ctrl |-> -1 ] } :
        c.dt <= 0 \/ c.dt < MIN_DT \/ c.dt > MAX_DT }
    \cup { [ check |-> "measured_index", ctrl |-> i ] : i \in
             { j \in 0..(n - 1) :
                 \/ At(c.controllerConfig, j).measuredIndex < 0
                 \/ At(c.controllerConfig, j).measuredIndex >= Len(c.initialState) } }
    \cup { [ check |-> "output_index", ctrl |-> i ] : i \in
             { j \in 0..(n - 1) :
                 \/ At(c.controllerConfig, j).outputIndex < 0
                 \/ At(c.controllerConfig, j).outputIndex >= Len(c.initialInputs) } }

\* position of a check in the order (1) state dimension, (2) input dimension,
\* (3) timestep, (4) every measured index, (5) every output index
ListedOrder(e, n) ==
  CASE e.check = "state_size" -> 0
    [] e.check = "input_size" -> 1
    [] e.check = "dt" -> 2
    [] e.check = "measured_index" -> 3 + e.ctrl
    [] e.check = "output_index" -> 3 + n + e.ctrl

\* position of a check in the order (1) state dimension, (2) input dimension,
\* (3) timestep, then controller by controller: its measured index, its
\* output index
PerControllerOrder(e, n) ==
  CASE e.check = "state_size" -> 0
    [] e.check = "input_size" -> 1
    [] e.check = "dt" -> 2
    [] e.check = "measured_index" -> 3 + 2 * e.ctrl
    [] e.check = "output_index" -> 4 + 2 * e.ctrl

FirstViolation(c, Order(_, _)) ==
  LET V == ViolatedChecks(c)
      n == Len(c.controllerConfig)
  IN  IF V = {} THEN NoError
      ELSE CHOOSE e \in V : \A f \in V : Order(e, n) <= Order(f, n)

\* C7 (as claimed): the error raised by construction is the first violated
\* check in the order state dimension, input dimension, timestep, every
\* controller's measured index, every controller's output index.
C7_ListedOrder ==
  lastCall.op = "construct" => lastCall.error = FirstViolation(config, ListedOrder)

\* C7 (amended): the error raised by construction is the first violated check
\* in the order state dimension, input dimension, timestep and then, for each
\* controller in configuration order, its measured index followed by its
\* output index.
C7_PerControllerOrder ==
  lastCall.op = "construct" =>
    /\ lastCall.error = FirstViolation(config, PerControllerOrder)
    /\ (lastCall.result = "invalid_argument") = (ViolatedChecks(config) /= {})

\* an earlier controller with an invalid output index, a later one with an
\* invalid measured index: the output index of the earlier one is reported
C7_Witness ==
  /\ lastCall.op = "construct"
  /\ Len(config.controllerConfig) = 2
  /\ Len(config.initialState) = TANK_STATE_SIZE
  /\ Len(config.initialInputs) = TANK_INPUT_SIZE
  /\ InRange(config.controllerConfig[1].measuredIndex, TANK_STATE_SIZE)
  /\ ~InRange(config.controllerConfig[1].outputIndex, TANK_INPUT_SIZE)
  /\ ~InRange(config.controllerConfig[2].measuredIndex, TANK_STATE_SIZE)
  /\ lastCall.result = "invalid_argument"
  /\ lastCall.error = [ check |-> "output_index", ctrl |-> 0 ]

\* the configurations construction must reject
InvalidConfig(c) ==
  \/ Len(c.initialState) /= TANK_STATE_SIZE
  \/ Len(c.initialInputs) /= TANK_INPUT_SIZE
  \/ c.dt = 0 \/ c.dt < 0 \/ c.dt < MIN_DT \/ c.dt > MAX_DT
  \/ \E i \in 1..Len(c.controllerConfig) :
       \/ c.controllerConfig[i].measuredIndex < 0
       \/ c.controllerConfig[i].measuredIndex >= Len(c.initialState)
       \/ c.controllerConfig[i].outputIndex < 0
       \/ c.controllerConfig[i].outputIndex >= Len(c.initialInputs)

\* C8: construction is all-or-nothing.  With an invalid configuration it
\* fails with an invalid-argument error, no Simulator exists, and no
\* controller, setpoint or previous-error entry was created before the throw.
C8_AllOrNothing ==
  InvalidConfig(config) =>
    /\ ~live
    /\ lastCall.op = "construct"
    /\ lastCall.result = "invalid_argument"
    /\ sim.controllers = << >>
    /\ sim.setpoints = << >>
    /\ sim.previousErrors = << >>

\* a rejected configuration whose only defect is the output index of the
\* second of two controllers: the first controller was valid and not built
C8_Witness ==
  /\ ~live
  /\ Len(config.controllerConfig) = 2
  /\ lastCall.error = [ check |-> "output_index", ctrl |-> 1 ]
  /\ Cardinality(ViolatedChecks(config)) = 1
  /\ sim.controllers = << >>

ControllerIndexed ==
  { "getSetpoint", "getControllerOutput", "getError", "setSetpoint", "setControllerGains" }

\* C9: a controller-indexed accessor or mutator called with an index that is
\* negative or >= the controller count, and setInput called with an index
\* that is negative or >= the input size, fails with out-of-range and leaves
\* the whole Simulator (time, state, inputs, setpoints, previous errors,
\* gains, accumulators) unchanged.
C9_OutOfRange ==
  [][ ( \/ /\ lastCall'.op \in ControllerIndexed
           /\ (lastCall'.index < 0 \/ lastCall'.index >= Len(sim.controllers))
        \/ /\ lastCall'.op = "setInput"
           /\ (lastCall'.index < 0 \/ lastCall'.index >= Len(sim.inputs)) )
      => /\ lastCall'.result = "out_of_range"
         /\ sim' = sim
         /\ ticks' = ticks
    ]_vars

\* setSetpoint with index = controller count on a Simulator that has stepped
C9_Witness ==
  /\ lastCall.op = "setSetpoint"
  /\ lastCall.index = Len(sim.controllers)
  /\ Len(sim.controllers) >= 1
  /\ lastCall.result = "out_of_range"
  /\ ticks >= 1

Getters ==
  { "getTime", "getState", "getInputs", "getSetpoint", "getControllerOutput", "getError" }

\* C10: the accessors are pure reads: a call of any of them, valid index or
\* not, leaves every member of the Simulator as it was (so every later call
\* returns what it would have returned without it).
C10_GettersPure ==
  [][ lastCall'.op \in Getters => sim' = sim /\ ticks' = ticks /\ live' = live ]_vars

\* a successful getError after a step() and a setSetpoint, returning an error
\* that differs from the stored previous error
C10_Witness ==
  /\ lastCall.op = "getError"
  /\ lastCall.result = "ok"
  /\ calls = 3
  /\ ticks = 1
  /\ getError(sim, lastCall.index).value /= At(sim.previousErrors, lastCall.index)

\* the 0-based positions of the controllers of s
ControllerIndices(s) == 0..(Len(s.controllers) - 1)

\* C11: for every valid controller index i, getControllerOutput(i) succeeds
\* and returns the current entry of the input vector at controller i's output
\* index; after a setInput on that index it returns the value set, and after
\* a step() it returns the output of the last controller writing that index.
C11_ReadBack ==
  /\ [](live => \A i \in ControllerIndices(sim) :
          /\ getControllerOutput(sim, i).result = "ok"
          /\ getControllerOutput(sim, i).value
               = At(sim.inputs, At(sim.controllerConfig, i).outputIndex))
  /\ [][ /\ lastCall'.op = "setInput" /\ lastCall'.result = "ok" =>
              \A i \in ControllerIndices(sim) :
                At(sim.controllerConfig, i).outputIndex = lastCall'.index
                  => getControllerOutput(sim', i).value = lastCall'.arg
         /\ StepDone =>
              \A i, j \in ControllerIndices(sim) :
                ( /\ At(sim.controllerConfig, i).outputIndex
                       = At(sim.controllerConfig, j).outputIndex
                  /\ \A k \in ControllerIndices(sim) :
                       At(sim.controllerConfig, k).outputIndex
                         = At(sim.controllerConfig, j).outputIndex => k <= j )
                => getControllerOutput(sim', i).value = lastCall'.ctrlCalls[j + 1].output
       ]_vars

\* after a step(), a setInput on the output index of controller 0 with a
\* value that differs from the output the controller had computed
C11_Witness ==
  /\ lastCall.op = "setInput" /\ lastCall.result = "ok"
  /\ ticks >= 1
  /\ Len(sim.controllers) >= 1
  /\ At(sim.controllerConfig, 0).outputIndex = lastCall.index
  /\ getControllerOutput(sim, 0).value = lastCall.arg
  /\ getControllerOutput_recompute(sim, 0).value /= lastCall.arg

\* C12 (as claimed): in every reachable state getControllerOutput(i) for a
\* valid i lies within controller i's [min_output, max_output] limits.
C12_WithinLimits ==
  live => \A i \in ControllerIndices(sim) :
            /\ getControllerOutput(sim, i).value >= At(sim.controllers, i).min_output
            /\ getControllerOutput(sim, i).value <= At(sim.controllers, i).max_output

\* C13: for every valid controller index i, getError(i) succeeds and equals
\* getSetpoint(i) minus the current state at controller i's measured index;
\* right after a setSetpoint(i, v) it is v minus that state entry.
C13_ErrorIsCurrent ==
  /\ [](live => \A i \in ControllerIndices(sim) :
          /\ getError(sim, i).result = "ok"
          /\ getError(sim, i).value
               = getSetpoint(sim, i).value
                   - At(sim.state, At(sim.controllerConfig, i).measuredIndex))
  /\ [][ lastCall'.op = "setSetpoint" /\ lastCall'.result = "ok" =>
           getError(sim', lastCall'.index).value
             = lastCall'.arg - At(sim.state, At(sim.controllerConfig,
                                                lastCall'.index).measuredIndex)
       ]_vars

\* a setSetpoint after a step(): the error differs from the one the step
\* stored
C13_Witness ==
  /\ lastCall.op = "setSetpoint" /\ lastCall.result = "ok"
  /\ ticks >= 1
  /\ getError(sim, lastCall.index).value
       = lastCall.arg - At(sim.state, At(sim.controllerConfig, lastCall.index).measuredIndex)
  /\ getError(sim, lastCall.index).value /= At(sim.previousErrors, lastCall.index)

\* controller j is the last one in configuration order that writes its
\* output index
LastWriter(s, j) ==
  \A k \in ControllerIndices(s) :
    At(s.controllerConfig, k).outputIndex = At(s.controllerConfig, j).outputIndex
      => k <= j

\* C14: after every step() the input entry at an output index holds the
\* output of the last controller in configuration order configured with that
\* index, whatever the earlier ones computed, and every controller, overwritten
\* or not, has been called once and has its own accumulator and previous
\* error updated from that call.
C14_LastWriterWins ==
  [][ StepDone =>
        /\ Len(lastCall'.ctrlCalls) = Len(sim.controllers)
        /\ \A j \in ControllerIndices(sim) :
             LET c == lastCall'.ctrlCalls[j + 1]
                 r == PID_compute(At(sim.controllers, j), c.error, c.error_dot, c.dt)
             IN  /\ LastWriter(sim, j)
                      => At(sim'.inputs, At(sim.controllerConfig, j).outputIndex) = c.output
                 /\ c.output = r.output
                 /\ At(sim'.controllers, j) = r.c
                 /\ At(sim'.previousErrors, j) = c.error
    ]_vars

\* a step() of two controllers with the same output index that computed
\* different outputs, the first of them with a non-zero accumulator
C14_Witness ==
  /\ lastCall.op = "step" /\ lastCall.result = "ok"
  /\ Len(sim.controllers) = 2
  /\ At(sim.controllerConfig, 0).outputIndex = At(sim.controllerConfig, 1).outputIndex
  /\ lastCall.ctrlCalls[1].output /= lastCall.ctrlCalls[2].output
  /\ At(sim.inputs, At(sim.controllerConfig, 1).outputIndex) = lastCall.ctrlCalls[2].output
  /\ At(sim.controllers, 0).integral_state /= 0
  /\ At(sim.previousErrors, 0) /= At(sim.previousErrors, 1)

\* the last call succeeded and was op
Did(call, op) == call.op = op /\ call.result = "ok"

\* C15: setInput(i, v) with 0 <= i < input size succeeds, sets input entry i
\* to v and changes nothing else in the Simulator; a step() that follows it
\* integrates with v at entry i in every derivative evaluation.
C15_SetInputFrame ==
  [][ /\ (lastCall'.op = "setInput" /\ InRange(lastCall'.index, Len(sim.inputs))) =>
           /\ lastCall'.result = "ok"
           /\ At(sim'.inputs, lastCall'.index) = lastCall'.arg
           /\ Len(sim'.inputs) = Len(sim.inputs)
           /\ \A k \in DOMAIN sim.inputs :
                k /= lastCall'.index + 1 => sim'.inputs[k] = sim.inputs[k]
           /\ sim'.state = sim.state /\ sim'.time = sim.time
           /\ sim'.setpoints = sim.setpoints
           /\ sim'.previousErrors = sim.previousErrors
           /\ sim'.controllers = sim.controllers
           /\ sim' = [ sim EXCEPT !.inputs = sim'.inputs ]
           /\ ticks' = ticks
      /\ (StepDone /\ Did(lastCall, "setInput")) =>
           /\ \A k \in 1..Len(lastCall'.derivCalls) :
                At(lastCall'.derivCalls[k].input, lastCall.index) = lastCall.arg
           /\ sim'.state = Stepper_step(sim.stepper, sim.model, sim.time, sim.dt, sim.state,
                                        SetAt(sim.inputs, lastCall.index, lastCall.arg)).result
    ]_vars

\* a step() that integrated with a value no controller and no configuration
\* supplied: it was written by the setInput between the two steps
C15_Witness ==
  /\ Did(lastCall, "step")
  /\ calls = 3 /\ ticks = 2
  /\ Len(sim.controllers) >= 1
  /\ \E k \in 0..(Len(sim.inputs) - 1) :
       /\ At(lastCall.derivCalls[1].input, k) \in InputValues
       /\ At(sim.initialInputs, k) \notin InputValues
       /\ \A i \in ControllerIndices(sim) : At(sim.controllerConfig, i).outputIndex /= k

\* C16: setSetpoint(i, v) with a valid controller index i succeeds and
\* changes only setpoint i; in a step() that follows it controller i is
\* called with error v minus the new state at its measured index.
C16_SetSetpointFrame ==
  [][ /\ (lastCall'.op = "setSetpoint" /\ lastCall'.index \in ControllerIndices(sim)) =>
           /\ lastCall'.result = "ok"
           /\ At(sim'.setpoints, lastCall'.index) = lastCall'.arg
           /\ Len(sim'.setpoints) = Len(sim.setpoints)
           /\ \A k \in DOMAIN sim.setpoints :
                k /= lastCall'.index + 1 => sim'.setpoints[k] = sim.setpoints[k]
           /\ sim'.state = sim.state /\ sim'.inputs = sim.inputs /\ sim'.time = sim.time
           /\ sim'.previousErrors = sim.previousErrors
           /\ sim'.controllers = sim.controllers
           /\ sim' = [ sim EXCEPT !.setpoints = sim'.setpoints ]
           /\ ticks' = ticks
      /\ (StepDone /\ Did(lastCall, "setSetpoint")) =>
           LET c == lastCall'.ctrlCalls[lastCall.index + 1]
           IN  /\ c.error = lastCall.arg
                      - At(sim'.state, At(sim.controllerConfig, lastCall.index).measuredIndex)
               /\ c.output = PID_compute(At(sim.controllers, lastCall.index), c.error,
                                         Div(c.error - At(sim.previousErrors, lastCall.index),
                                             sim.dt), sim.dt).output
    ]_vars

\* step(), setSetpoint, step(): the second step computed its error from the
\* new setpoint, and the previous error it used was not 0
C16_Witness ==
  /\ Did(lastCall, "step")
  /\ calls = 3 /\ ticks = 2
  /\ \E i \in ControllerIndices(sim) :
       /\ At(sim.setpoints, i) \in SetpointValues
       /\ At(sim.setpoints, i) /= At(sim.controllerConfig, i).initialSetpoint
       /\ lastCall.ctrlCalls[i + 1].error
            = At(sim.setpoints, i) - At(sim.state, At(sim.controllerConfig, i).measuredIndex)
       /\ lastCall.ctrlCalls[i + 1].error_dot
            /= Div(lastCall.ctrlCalls[i + 1].error, sim.dt)

\* C17: setControllerGains(i, g) with a valid controller index i succeeds and
\* replaces only controller i's gains: its accumulator, limits and bias, its
\* previous error and setpoint, the other controllers, state, inputs and time
\* are unchanged; a step() that follows it computes controller i's output
\* with g and the accumulator kept.
C17_BumplessRetuning ==
  [][ /\ (lastCall'.op = "setControllerGains"
            /\ lastCall'.index \in ControllerIndices(sim)) =>
           /\ lastCall'.result = "ok"
           /\ At(sim'.controllers, lastCall'.index)
                = [ At(sim.controllers, lastCall'.index) EXCEPT !.gains = lastCall'.arg ]
           /\ At(sim'.controllers, lastCall'.index).integral_state
                = At(sim.controllers, lastCall'.index).integral_state
           /\ Len(sim'.controllers) = Len(sim.controllers)
           /\ \A k \in DOMAIN sim.controllers :
                k /= lastCall'.index + 1 => sim'.controllers[k] = sim.controllers[k]
           /\ sim'.state = sim.state /\ sim'.inputs = sim.inputs /\ sim'.time = sim.time
           /\ sim'.setpoints = sim.setpoints
           /\ sim'.previousErrors = sim.previousErrors
           /\ sim' = [ sim EXCEPT !.controllers = sim'.controllers ]
           /\ ticks' = ticks
      /\ (StepDone /\ Did(lastCall, "setControllerGains")) =>
           LET c == lastCall'.ctrlCalls[lastCall.index + 1]
               r == PID_compute([ At(sim.controllers, lastCall.index)
                                    EXCEPT !.gains = lastCall.arg ],
                                c.error, c.error_dot, c.dt)
           IN  /\ c.output = r.output
               /\ At(sim'.controllers, lastCall.index) = r.c
    ]_vars

\* step(), setControllerGains, step(): the retuned controller entered the
\* second step with the accumulator of the first
C17_Witness ==
  /\ Did(lastCall, "step")
  /\ calls = 3 /\ ticks = 2
  /\ \E i \in ControllerIndices(sim) :
       /\ At(sim.controllers, i).gains \in GainsValues
       /\ At(sim.controllers, i).gains /= At(sim.controllerConfig, i).gains
       /\ At(sim.controllers, i).integral_state /= 0

\* C18: on a constructed Simulator, after any sequence of calls, the state
\* vector and the input vector have the sizes they had at construction (the
\* sizes of the configuration's initial vectors), and every step() succeeds.
C18_SizesFixed ==
  live =>
    /\ Len(sim.state) = Len(config.initialState)
    /\ Len(sim.inputs) = Len(config.initialInputs)
    /\ Len(getState(sim).value) = TANK_STATE_SIZE
    /\ Len(getInputs(sim).value) = TANK_INPUT_SIZE
    /\ lastCall.op = "step" => lastCall.result = "ok"

\* two steps and a setInput later, with state and inputs both changed
C18_Witness ==
  /\ Did(lastCall, "step")
  /\ calls = 3 /\ ticks = 2
  /\ sim.state /= config.initialState
  /\ sim.inputs /= config.initialInputs
  /\ Len(sim.controllers) >= 1
  /\ Len(sim.state) = TANK_STATE_SIZE /\ Len(sim.inputs) = TANK_INPUT_SIZE

\* C19: the Simulator works on its own copy of the configuration.  Whatever
\* the caller's Config object has become, the Simulator's timestep, model
\* parameters, controller configurations and stored initial vectors are those
\* it was constructed with; changing the Config object changes no member of
\* the Simulator; every step() integrates and advances the clock with the
\* construction-time parameters and timestep, and reset() restores the
\* construction-time state, inputs and setpoints.
C19_ConfigCopied ==
  /\ [](live =>
          /\ sim.dt = config.dt
          /\ sim.model = config.params
          /\ sim.controllerConfig = config.controllerConfig
          /\ sim.initialState = config.initialState
          /\ sim.initialInputs = config.initialInputs)
  /\ [][ /\ callerConfig' /= callerConfig => sim' = sim /\ config' = config
         /\ StepDone =>
              /\ sim'.state = Stepper_step(Len(config.initialState), config.params,
                                           sim.time, config.dt, sim.state, sim.inputs).result
              /\ sim'.time = sim.time + config.dt
              /\ \A i \in ControllerIndices(sim) :
                   lastCall'.ctrlCalls[i + 1].error
                     = At(sim.setpoints, i)
                         - At(sim'.state, At(config.controllerConfig, i).measuredIndex)
         /\ lastCall'.op = "reset" =>
              /\ sim'.time = 0
              /\ sim'.state = config.initialState
              /\ sim'.inputs = config.initialInputs
              /\ \A i \in ControllerIndices(sim) :
                   At(sim'.setpoints, i) = At(config.controllerConfig, i).initialSetpoint
       ]_vars

\* a reset() after the caller replaced the initial vectors of its Config
\* object, on a Simulator with a controller: the construction-time values are
\* restored
C19_Witness ==
  /\ Did(lastCall, "reset")
  /\ calls = 3
  /\ Len(sim.controllers) >= 1
  /\ callerConfig.initialState /= config.initialState
  /\ callerConfig.initialInputs /= config.initialInputs
  /\ sim.state = config.initialState
  /\ sim.inputs = config.initialInputs

\* v lies within the output limits of the controller c
WithinLimits(c, v) == c.min_output <= v /\ v <= c.max_output

\* C20: every PIDController::compute call, whatever its error, error rate,
\* dt, the gains set and the accumulator reached, returns a value within
\* [min_output, max_output]; in every step() each controller's output is
\* within that controller's limits, and afterwards the input entry at the
\* output index of the last controller writing it lies within that
\* controller's limits.
C20_OutputWithinLimits ==
  /\ [](pidCall.op = "compute" => WithinLimits(pid, pidCall.output))
  /\ [][ StepDone =>
           \A j \in ControllerIndices(sim) :
             /\ WithinLimits(At(sim.controllers, j), lastCall'.ctrlCalls[j + 1].output)
             /\ LastWriter(sim, j) =>
                  WithinLimits(At(sim.controllers, j),
                               At(sim'.inputs, At(sim.controllerConfig, j).outputIndex))
       ]_vars

\* a compute call after a retuning whose unclamped output exceeded the upper
\* limit, with the accumulator away from 0
C20_Witness ==
  /\ pidCall.op = "compute"
  /\ pid.gains /= InitialGains
  /\ pid.integral_state /= 0
  /\ pidCall.output = pid.max_output
  /\ pid.bias + Mul(pid.gains.Kc, pidCall.error)
       + Mul(Mul(pid.gains.Kc, pid.gains.tau_D), pidCall.error_dot)
       - pid.max_integral > pid.max_output

\* C21: the magnitude of a controller's integral accumulator never exceeds
\* its configured bound: for a controller used on its own after any sequence
\* of compute, setGains and reset calls, and for every controller of a
\* Simulator (bound: its configuration's maxIntegralAccumulation) after any
\* sequence of Simulator calls.
C21_IntegralBounded ==
  /\ pid.max_integral = StandaloneController.max_integral
  /\ Abs(pid.integral_state) <= pid.max_integral
  /\ live => \A i \in ControllerIndices(sim) :
               /\ At(sim.controllers, i).max_integral
                    = At(config.controllerConfig, i).maxIntegralAccumulation
               /\ Abs(At(sim.controllers, i).integral_state)
                    <= At(config.controllerConfig, i).maxIntegralAccumulation

\* three steps after which a controller's accumulator sits on its bound, the
\* error having kept its sign
C21_Witness ==
  /\ Did(lastCall, "step")
  /\ ticks = 3
  /\ \E i \in ControllerIndices(sim) :
       /\ Abs(At(sim.controllers, i).integral_state)
            = At(config.controllerConfig, i).maxIntegralAccumulation
       /\ At(sim.previousErrors, i) /= 0

Sign(x) == IF x > 0 THEN 1 ELSE IF x < 0 THEN -1 ELSE 0

\* the raw output (bias + proportional + integral + derivative) of the
\* compute call that left the controller c, given the call's arguments
RawOutput(c, error, error_dot) ==
  c.bias + Mul(c.gains.Kc, error) + c.integral_state
    + (IF c.gains.tau_D = 0 THEN 0 ELSE Mul(Mul(c.gains.Kc, c.gains.tau_D), error_dot))

\* what a compute call adds to the accumulator of c before clamping it
IntegralIncrement(c, error, dt) ==
  IF c.gains.tau_I = 0 THEN 0 ELSE Mul(Mul(Div(c.gains.Kc, c.gains.tau_I), error), dt)

\* a compute call whose raw output exceeded max_output returned max_output
SaturatedHigh ==
  /\ pidCall.op = "compute"
  /\ RawOutput(pid, pidCall.error, pidCall.error_dot) > pid.max_output

EvaluationTimes(call) == [ k \in 1..Len(call.derivCalls) |-> call.derivCalls[k].t ]

\* half of a time interval, as the integrator computes h / 2.0
Half(h) == TruncDiv(h, 2)

\* C23 (as claimed): each integrator step calls the derivative function
\* exactly four times, at t, t+dt/2, t+dt/2 and t+dt in that order, with the
\* same unchanged input vector.
C23_FourEvaluations ==
  [][ StepDone =>
        /\ EvaluationTimes(lastCall')
             = << sim.time, sim.time + Half(sim.dt), sim.time + Half(sim.dt),
                  sim.time + sim.dt >>
        /\ \A k \in 1..Len(lastCall'.derivCalls) :
             lastCall'.derivCalls[k].input = sim.inputs
    ]_vars

\* C23 (amended): each integrator step calls the derivative function exactly
\* eleven times, always with the same unchanged input vector: at t; at
\* t+dt/2, t+dt/2, t+dt (one step of size dt, used for the error estimate);
\* at t+dt/4, t+dt/4, t+dt/2 (first half step); at t+dt/2 (derivative at the
\* midpoint); at t+3dt/4, t+3dt/4, t+dt (second half step), in that order.
C23_ElevenEvaluations ==
  [][ StepDone =>
        LET t == sim.time
            h == sim.dt
            m == sim.time + Half(sim.dt)
        IN  /\ EvaluationTimes(lastCall')
                 = << t,
                      t + Half(h), t + Half(h), t + h,
                      t + Half(Half(h)), t + Half(Half(h)), t + Half(h),
                      m,
                      m + Half(Half(h)), m + Half(Half(h)), m + Half(h) >>
            /\ \A k \in 1..Len(lastCall'.derivCalls) :
                 lastCall'.derivCalls[k].input = sim.inputs
    ]_vars

\* a second step(), made after the controllers of the first one have changed
\* the input vector: eleven evaluations, all with the changed inputs
C23_Witness ==
  /\ Did(lastCall, "step")
  /\ ticks = 2
  /\ Len(lastCall.derivCalls) = 11
  /\ lastCall.derivCalls[1].input /= config.initialInputs
  /\ lastCall.derivCalls[11].input = lastCall.derivCalls[1].input

\* C24: Stepper::step with a state vector whose size differs from the
\* stepper's dimension fails with the dimension-mismatch error before the
\* derivative function is called and returns no result; with a state of the
\* stepper's dimension it succeeds and returns a vector of exactly that
\* dimension, computed from the state and input it was given (the first
\* derivative evaluation receives them as passed).  The same holds of the
\* Stepper inside a Simulator.
C24_DimensionCheck ==
  /\ stepperCall.op = "step" =>
       IF Len(stepperCall.state) /= stepperCall.state_dimension
       THEN /\ stepperCall.status = "runtime_error"
            /\ stepperCall.calls = << >>
            /\ stepperCall.result = << >>
       ELSE /\ stepperCall.status = "ok"
            /\ Len(stepperCall.result) = stepperCall.state_dimension
            /\ Len(stepperCall.calls) > 0
            /\ stepperCall.calls[1].y = stepperCall.state
            /\ \A k \in 1..Len(stepperCall.calls) :
                 stepperCall.calls[k].input = stepperCall.input
  /\ (live /\ Did(lastCall, "step")) =>
       /\ Len(sim.state) = sim.stepper
       /\ Len(lastCall.derivCalls) > 0

\* a step with a state longer than the stepper's dimension was rejected
C24_Witness ==
  /\ stepperCall.op = "step"
  /\ Len(stepperCall.state) > stepperCall.state_dimension
  /\ Len(stepperCall.input) = TANK_INPUT_SIZE
  /\ stepperCall.status = "runtime_error"

\* |a - b| <= tol, componentwise
Near(a, b, tol) ==
  /\ Len(a) = Len(b)
  /\ \A k \in DOMAIN a : Abs(a[k] - b[k]) <= tol

\* the tolerance of the steady-state comparison (0.125)
SteadyTolerance == Q \div 8

\* inlet flow equals outlet flow at the initial state, and every controller's
\* setpoint equals its initial measured value
SteadyInitially(c) ==
  /\ outletFlow(c.params, c.initialState[1], c.initialInputs[2]) = c.initialInputs[1]
  /\ \A i \in DOMAIN c.controllerConfig :
       c.controllerConfig[i].initialSetpoint
         = At(c.initialState, c.controllerConfig[i].measuredIndex)

\* every controller's bias, clamped to its output limits, is the initial value
\* of the input entry the controller writes
BiasMatchesInputs(c) ==
  \A i \in DOMAIN c.controllerConfig :
    Clamp(c.controllerConfig[i].bias, c.controllerConfig[i].minOutputLimit,
          c.controllerConfig[i].maxOutputLimit)
      = At(c.initialInputs, c.controllerConfig[i].outputIndex)

\* C25 (as claimed): for every configuration in which inlet flow equals
\* outlet flow at the initial state and each controller's setpoint equals its
\* initial measured value, state and inputs are within the tolerance of their
\* initial values after every one of 100 consecutive step() calls.
C25_SteadyStays ==
  (live /\ SteadyInitially(config)) =>
     /\ Near(sim.state, config.initialState, SteadyTolerance)
     /\ Near(sim.inputs, config.initialInputs, SteadyTolerance)

\* C25 (amended): for every configuration in which inlet flow equals outlet
\* flow at the initial state, each controller's setpoint equals its initial
\* measured value and each controller's bias (clamped to its output limits)
\* equals the initial value of the input it writes, state and inputs are
\* within the tolerance of their initial values after every one of 100
\* consecutive step() calls.
C25_SteadyStaysWithBias ==
  (live /\ SteadyInitially(config) /\ BiasMatchesInputs(config)) =>
     /\ Near(sim.state, config.initialState, SteadyTolerance)
     /\ Near(sim.inputs, config.initialInputs, SteadyTolerance)

\* the hundredth step of a steady configuration with two controllers
C25_Witness ==
  /\ Did(lastCall, "step")
  /\ ticks = SteadyTicks
  /\ SteadyInitially(config)
  /\ BiasMatchesInputs(config)
  /\ Len(config.controllerConfig) = 2

\* C27: step() writes the input vector only at the output indices of the
\* configured controllers: every other input entry keeps its value across
\* step(); with an empty controller list step() leaves the input vector as
\* it is, and the input vector then changes only through setInput and reset().
C27_StepWritesOnlyOutputs ==
  [][ /\ StepDone =>
           /\ Len(sim'.inputs) = Len(sim.inputs)
           /\ \A k \in DOMAIN sim.inputs :
                (\A i \in ControllerIndices(sim) :
                   At(sim.controllerConfig, i).outputIndex /= k - 1)
                => sim'.inputs[k] = sim.inputs[k]
           /\ Len(sim.controllers) = 0 => sim'.inputs = sim.inputs
      /\ (Len(sim.controllers) = 0 /\ sim'.inputs /= sim.inputs) =>
           lastCall'.op \in { "setInput", "reset" }
    ]_vars

\* a step() of a Simulator whose only controller drives the valve: the inlet
\* flow set by setInput before the step is kept, the valve position is new
C27_Witness ==
  /\ Did(lastCall, "step")
  /\ Len(sim.controllers) = 1
  /\ At(sim.controllerConfig, 0).outputIndex = 1
  /\ sim.inputs[1] \in InputValues
  /\ sim.inputs[1] /= config.initialInputs[1]
  /\ sim.inputs[2] /= config.initialInputs[2]

\* C28 (as claimed): in every derivative evaluation made by Stepper::step the
\* state vector handed to the derivative function has exactly
\* state_dimension entries, whatever the length of the input vector; in
\* particular for the Simulator's tank model (state size 1, input size 2).
C28_StateSizeIsDimension ==
  (live /\ Did(lastCall, "step")) =>
     \A k \in 1..Len(lastCall.derivCalls) :
       lastCall.derivCalls[k].stateSize = sim.stepper

\* C30 (as claimed): every TankModel::derivatives call made during step()
\* meets the documented preconditions: state of size 1, inputs of size 2,
\* level >= 0 and valve position within [0, 1].
C30_DerivativePreconditions ==
  (live /\ Did(lastCall, "step")) =>
     \A k \in 1..Len(lastCall.derivCalls) :
       /\ lastCall.derivCalls[k].stateSize = TANK_STATE_SIZE
       /\ Len(lastCall.derivCalls[k].input) = TANK_INPUT_SIZE
       /\ lastCall.derivCalls[k].y[1] >= 0
       /\ 0 <= lastCall.derivCalls[k].input[2]
       /\ lastCall.derivCalls[k].input[2] <= Q

\* C29: a step() either completes, leaving the Simulator as a successful
\* step() leaves it, or, when the integrator throws, reports that failure to
\* the caller and leaves time, state, inputs, setpoints, previous errors and
\* controller accumulators exactly as they were: no clock advance and no
\* controller update for a failed tick.
C29_FailedStepChangesNothing ==
  [][ lastCall'.op = "step" =>
        \/ /\ lastCall'.result = "ok"
           /\ sim' = step(sim).s
           /\ ticks' = ticks + 1
        \/ /\ lastCall'.result \in { "bad_alloc", "runtime_error" }
           /\ sim' = sim
           /\ ticks' = ticks
           /\ lastCall'.ctrlCalls = << >>
    ]_vars

\* a failed step() after a successful one, with controllers that hold
\* accumulators and previous errors
C29_Witness ==
  /\ lastCall.op = "step"
  /\ lastCall.result = "runtime_error"
  /\ ticks = 1
  /\ sim.time = sim.dt
  /\ Len(sim.controllers) > 0
  /\ \E i \in ControllerIndices(sim) : At(sim.previousErrors, i) /= 0

====
